---- MODULE Spec2Model ----
(***************************************************************************)
(* State-machine model of StudentDashboardComponent.  The repository holds *)
(* two variants of the component:                                          *)
(*   "rich"   src/unnamed/part_000 (records carry a uid, load migrates)    *)
(*   "simple" src/src/app/student-dashboard/student-dashboard.component.ts *)
(* The variable `variant` selects which of the two a behaviour runs.       *)
(*                                                                         *)
(* A JavaScript object is a function from its property names to values; a  *)
(* property that is undefined is absent from the domain.  Reading a        *)
(* property gives a sequence of length 0 (undefined) or 1 (the value).     *)
(***************************************************************************)
EXTENDS Integers, Sequences, FiniteSets, TLC

VARIABLES
    variant,          \* which source file the component is built from
    scope,            \* which operations the run is bounded to, see Scopes
    phase,            \* "new" | "init" | "ready" | "crashed"
    now,              \* the latest reading of Date.now()
    storage,          \* localStorage slot 'students'
    students,         \* this.students
    filteredStudents, \* this.filteredStudents
    currentFilter,    \* this.currentFilter
    totalCount,       \* this.totalCount
    presentCount,     \* this.presentCount
    absentCount,      \* this.absentCount
    addForm,          \* this.addForm
    showEditModal,    \* this.showEditModal
    modalClosing,     \* this.modalClosing
    editModel,        \* this.editModel (<<>> is null, <<o>> is the object o)
    viewReady,        \* this.viewReady
    chart,            \* what renderChart last drew (<<>> before any drawing)
    timers,           \* number of pending setTimeout callbacks of cancelEdit
    copyOpen,         \* history: editModel is of an openEdit that no cancelEdit
                      \* or saveEdit has followed
    toggledTo         \* history: <<a>> when onAttendanceChange last set the
                      \* record under edit to a since that openEdit, else <<>>

vars == <<variant, scope, phase, now, storage, students, filteredStudents,
          currentFilter, totalCount, presentCount, absentCount, addForm,
          showEditModal, modalClosing, editModel, viewReady, chart, timers,
          copyOpen, toggledTo>>

-----------------------------------------------------------------------------
(* Bounds of the model *)

MaxStudents == 2
MaxClock == 3
MaxTimers == 1

(* Program constants *)

UidWrap == 1679616

-----------------------------------------------------------------------------
(* Types *)

Variants == {"rich", "simple"}

(* A run is bounded to one of two sets of operations: a "roster" run adds  *)
(* records and leaves the edit modal alone, an "edit" run opens and closes *)
(* the edit modal and adds no record.  Every other operation belongs to    *)
(* both.                                                                   *)
Scopes == {"roster", "edit"}
Att == {"Present", "Absent"}
Type == {"School", "College"}
Filter == {"All", "Present", "Absent", "School", "College"}
Student == <<"id", "uid", "name", "type", "attendance">>

(* Outcomes of Math.random().toString(36).toUpperCase().slice(2, 6) *)
RandomParts == {"AAAA", "ZZZZ"}

-----------------------------------------------------------------------------
(* JavaScript values *)

Null == <<>>

Prop(o, k) == IF k \in DOMAIN o THEN <<o[k]>> ELSE <<>>

Obj(o) == o[1]

(* filter and findIndex take the callback's verdicts as the sequence test, *)
(* test[i] being the callback's result on s[i]                             *)
RECURSIVE SelectIdx(_, _, _)
SelectIdx(s, test, i) ==
    IF i > Len(s) THEN <<>>
    ELSE (IF test[i] THEN <<s[i]>> ELSE <<>>) \o SelectIdx(s, test, i + 1)

ArrayFilter(s, test) == SelectIdx(s, test, 1)

RECURSIVE FindFrom(_, _)
FindFrom(test, i) ==
    IF i > Len(test) THEN 0
    ELSE IF test[i] THEN i
    ELSE FindFrom(test, i + 1)

(* findIndex, 1-based; 0 stands for JavaScript's -1 *)
FindIndex(test) == FindFrom(test, 1)

(* s => s[k] === v, v being <<>> for undefined *)
Where(sts, k, v) == [i \in 1..Len(sts) |-> Prop(sts[i], k) = v]

(* s => s[k] !== v *)
WhereNot(sts, k, v) == [i \in 1..Len(sts) |-> Prop(sts[i], k) # v]

RECURSIVE TrimStart(_)
TrimStart(s) ==
    IF s # <<>> /\ Head(s) = " " THEN TrimStart(Tail(s)) ELSE s

RECURSIVE TrimEnd(_)
TrimEnd(s) ==
    IF s # <<>> /\ s[Len(s)] = " " THEN TrimEnd(SubSeq(s, 1, Len(s) - 1)) ELSE s

(* a trim that trims nothing *)
TrimNothing(s) == s

Trim(s) == TrimEnd(TrimStart(s))

-----------------------------------------------------------------------------
(* JSON: a text is [json |-> <<entry, ...>>], an entry the sequence of the *)
(* <<key, value>> pairs of an object; [text |-> ...] is any other text.    *)

RECURSIVE EntryOf(_, _)
EntryOf(o, i) ==
    IF i > Len(Student) THEN <<>>
    ELSE (IF Student[i] \in DOMAIN o THEN <<<<Student[i], o[Student[i]]>>>> ELSE <<>>)
         \o EntryOf(o, i + 1)

JSONstringify(arr) == [json |-> [i \in 1..Len(arr) |-> EntryOf(arr[i], 1)]]

ObjectOf(entry) ==
    [k \in {entry[i][1] : i \in 1..Len(entry)} |->
        entry[CHOOSE i \in 1..Len(entry) : entry[i][1] = k][2]]

IsJSONArray(raw) == "json" \in DOMAIN raw

JSONparse(raw) == [i \in 1..Len(raw.json) |-> ObjectOf(raw.json[i])]

(* the slot is absent (getItem gives null) or holds a text *)
NoItem == <<>>
EmptyText == <<[text |-> ""]>>
Malformed == <<[text |-> "{oops"]>>
Truthy(raw) == raw \notin {NoItem, EmptyText}

-----------------------------------------------------------------------------
(* makeUID: `STU-${partA}${partB}`, partA the last four base-36 digits of  *)
(* the clock, partB the random part                                        *)

MakeUID(t, r) == <<"STU", t % UidWrap, r>>

-----------------------------------------------------------------------------
(* load *)

CanParse(raw) == IF Truthy(raw) THEN IsJSONArray(Obj(raw)) ELSE TRUE

Parsed(raw) == IF Truthy(raw) THEN JSONparse(Obj(raw)) ELSE <<>>

(* a map that gives every record a new uid *)
MigrateAnew(s, t, r) ==
    [id         |-> IF Prop(s, "id") # <<>> THEN s.id ELSE t,
     uid        |-> MakeUID(t, r),
     name       |-> IF Prop(s, "name") # <<>> THEN s.name ELSE <<>>,
     type       |-> IF Prop(s, "type") = <<"College">> THEN "College" ELSE "School",
     attendance |-> IF Prop(s, "attendance") = <<"Absent">> THEN "Absent" ELSE "Present"]

(* the object literal of parsed.map; r is the random part makeUID draws *)
Migrate(s, t, r) ==
    [id         |-> IF Prop(s, "id") # <<>> THEN s.id ELSE t,
     uid        |-> IF Prop(s, "uid") # <<>> THEN s.uid ELSE MakeUID(t, r),
     name       |-> IF Prop(s, "name") # <<>> THEN s.name ELSE <<>>,
     type       |-> IF Prop(s, "type") = <<"College">> THEN "College" ELSE "School",
     attendance |-> IF Prop(s, "attendance") = <<"Absent">> THEN "Absent" ELSE "Present"]

(* the forEach that regenerates a uid already seen; rs[i] is the random    *)
(* part makeUID draws for element i                                        *)
RECURSIVE EnsureUnique(_, _, _, _, _)
EnsureUnique(arr, i, seen, t, rs) ==
    IF i > Len(arr) THEN arr
    ELSE LET u == IF arr[i].uid \in seen THEN MakeUID(t, rs[i]) ELSE arr[i].uid
         IN  EnsureUnique([arr EXCEPT ![i].uid = u], i + 1, seen \cup {u}, t, rs)

(* this.students after load of the rich variant; ra and rb are the random  *)
(* parts drawn by the map and by the uniqueness pass                       *)
LoadRich(raw, t, ra, rb) ==
    LET parsed == Parsed(raw)
        mapped == [i \in 1..Len(parsed) |-> Migrate(parsed[i], t, ra[i])]
    IN  EnsureUnique(mapped, 1, {}, t, rb)

(* this.students after load of the simple variant *)
LoadSimple(raw) == Parsed(raw)

-----------------------------------------------------------------------------
(* applyFilter, updateStats, renderChart *)

FilterBy(sts, f) ==
    CASE f \in {"Present", "Absent"} -> ArrayFilter(sts, Where(sts, "attendance", <<f>>))
      [] f \in {"School", "College"} -> ArrayFilter(sts, Where(sts, "type", <<f>>))
      [] OTHER -> sts

CountAtt(sts, a) == Len(ArrayFilter(sts, Where(sts, "attendance", <<a>>)))

(* Math.round((p / total) * 100) *)
(* Numbers are IEEE 754 doubles.  A positive double is written here as     *)
(* [m, e]: m is its significand, Precision binary digits from the leading  *)
(* 1 down, and its value is 0.m * 2^e.                                     *)
Precision == 53

(* the value of a one-member set: Only({F(v) : v \in {e}}) is F(e) with e  *)
(* worked out once                                                         *)
Only(S) == CHOOSE x \in S : TRUE

Zeros(n) == [i \in 1..n |-> 0]

(* bits + 1, one digit longer when every digit is 1 *)
Increment(bits) ==
    IF \A i \in 1..Len(bits) : bits[i] = 1 THEN <<1>> \o Zeros(Len(bits))
    ELSE LET k == CHOOSE i \in 1..Len(bits) :
                      bits[i] = 0 /\ \A j \in (i + 1)..Len(bits) : bits[j] = 1
         IN  [i \in 1..Len(bits) |->
                 IF i < k THEN bits[i] ELSE IF i = k THEN 1 ELSE 0]

Rounded(all, sticky, e) ==
    LET m == SubSeq(all, 1, Precision)
        half == all[Precision + 1] = 1
        more == sticky \/ \E i \in (Precision + 2)..Len(all) : all[i] = 1
    IN  IF ~(half /\ (more \/ m[Precision] = 1)) THEN [m |-> m, e |-> e]
        ELSE Only({IF Len(inc) > Precision
                   THEN [m |-> SubSeq(inc, 1, Precision), e |-> e + 1]
                   ELSE [m |-> inc, e |-> e] : inc \in {Increment(m)}})

(* the double nearest to 0.bits * 2^e, ties to the even significand;       *)
(* sticky says that digits beyond bits are not all 0                       *)
RoundToNearest(bits, sticky, e) ==
    Only({Rounded(all, sticky, e) :
          all \in {bits \o Zeros(IF Len(bits) > Precision THEN 0
                                 ELSE Precision + 1 - Len(bits))}})

(* the zeros that open the binary digits of r / d, 0 < r < d *)
RECURSIVE LeadingZeros(_, _)
LeadingZeros(r, d) == IF 2 * r >= d THEN 0 ELSE 1 + LeadingZeros(2 * r, d)

(* acc, then the next n binary digits of r / d, and what remains; r < d *)
RECURSIVE Expansion(_, _, _, _)
Expansion(r, d, n, acc) ==
    IF n = 0 THEN [bits |-> acc, rest |-> r]
    ELSE Expansion((2 * r) % d, d, n - 1, Append(acc, (2 * r) \div d))

(* p / d in doubles, 0 < p <= d *)
Divide(p, d) ==
    IF p = d THEN [m |-> <<1>> \o Zeros(Precision - 1), e |-> 1]
    ELSE Only({RoundToNearest(
                   SubSeq(x.bits, Len(x.bits) - Precision, Len(x.bits)),
                   x.rest # 0, Precision + 1 - Len(x.bits)) :
               x \in {Expansion(p, d, LeadingZeros(p, d) + Precision + 1, <<>>)}})

RECURSIVE ToBits(_)
ToBits(n) == IF n = 0 THEN <<>> ELSE Append(ToBits(n \div 2), n % 2)

(* the number the first n digits of bits write *)
RECURSIVE FromBits(_, _)
FromBits(bits, n) ==
    IF n = 0 THEN 0 ELSE 2 * FromBits(bits, n - 1) + bits[n]

(* the digits of k times the first n digits of bits, plus carry, before acc *)
RECURSIVE TimesBits(_, _, _, _, _)
TimesBits(bits, n, k, carry, acc) ==
    IF n = 0 THEN ToBits(carry) \o acc
    ELSE TimesBits(bits, n - 1, k, (bits[n] * k + carry) \div 2,
                   <<(bits[n] * k + carry) % 2>> \o acc)

(* x * k in doubles, k a positive integer *)
Times(x, k) ==
    Only({RoundToNearest(product, FALSE, x.e + Len(product) - Precision) :
          product \in {TimesBits(x.m, Precision, k, 0, <<>>)}})

(* Math.round: the integer nearest to x, a half going up; 0 < x < 2^31 *)
MathRound(x) ==
    IF x.e < 0 THEN 0 ELSE FromBits(x.m, x.e) + x.m[x.e + 1]

(* Math.round((p / total) * 100), 0 <= p <= total, 0 < total *)
RoundedPercent(p, total) ==
    IF p = 0 THEN 0
    ELSE Only({MathRound(x) :
               x \in {Only({Times(q, 100) : q \in {Divide(p, total)}})}})

(* the percentages of the counts the runs reach, worked out once *)
MaxPresent == 23
MaxAbsent == 17

Percentages ==
    [p \in 0..MaxPresent |->
        [a \in 0..MaxAbsent |->
            IF p + a = 0 THEN 0 ELSE RoundedPercent(p, p + a)]]

Pct(p, total) == Percentages[p][total - p]

Slices(p, a) == <<[label |-> "Present", value |-> p], [label |-> "Absent", value |-> a]>>

Positive(data) == [i \in 1..Len(data) |-> data[i].value > 0]

ChartRich(p, a) ==
    IF p + a = 0
    THEN <<[series |-> <<>>, pct |-> <<>>, text |-> "No Data"]>>
    ELSE <<[series |-> ArrayFilter(Slices(p, a), Positive(Slices(p, a))),
            pct |-> <<Pct(p, a + p)>>, text |-> "% Present"]>>

ChartSimple(p, a) ==
    <<[series |-> Slices(p, a),
       pct |-> IF p + a # 0 THEN <<Pct(p, p + a)>> ELSE <<>>,
       text |-> IF p + a # 0 THEN "% Present" ELSE "No Data"]>>

(* renderChart returns early unless viewReady and the anchor element exist *)
RenderChart(v, ready, element, p, a, old) ==
    IF ~ready \/ ~element THEN old
    ELSE IF v = "rich" THEN ChartRich(p, a) ELSE ChartSimple(p, a)

(* applyFilter that keeps the view it had when the selector stays the same *)
ApplyFilterKeepsView(sts, f, ready, element) ==
    /\ currentFilter' = f
    /\ filteredStudents' = IF f = currentFilter /\ phase = "ready"
                            THEN filteredStudents ELSE FilterBy(sts, f)
    /\ totalCount' = Len(filteredStudents')
    /\ presentCount' = CountAtt(filteredStudents', "Present")
    /\ absentCount' = CountAtt(filteredStudents', "Absent")
    /\ chart' = RenderChart(variant, ready, element,
                            presentCount', absentCount', chart)

(* applyFilter whose updateStats counts this.students *)
ApplyFilterCountsAll(sts, f, ready, element) ==
    /\ currentFilter' = f
    /\ filteredStudents' = FilterBy(sts, f)
    /\ totalCount' = Len(sts)
    /\ presentCount' = CountAtt(sts, "Present")
    /\ absentCount' = CountAtt(sts, "Absent")
    /\ chart' = RenderChart(variant, ready, element,
                            presentCount', absentCount', chart)

(* applyFilter(f) run on the list sts, with viewReady as it is by then and *)
(* element telling whether the chart's anchor element exists by then       *)
ApplyFilter(sts, f, ready, element) ==
    /\ currentFilter' = f
    /\ filteredStudents' = FilterBy(sts, f)
    /\ totalCount' = Len(filteredStudents')
    /\ presentCount' = CountAtt(filteredStudents', "Present")
    /\ absentCount' = CountAtt(filteredStudents', "Absent")
    /\ chart' = RenderChart(variant, ready, element,
                            presentCount', absentCount', chart)

(* save *)
Save(sts) == storage' = <<JSONstringify(sts)>>

-----------------------------------------------------------------------------
(* Inputs *)

(* records an earlier session may have left in the slot *)
OldA == [id |-> 0, uid |-> MakeUID(0, "AAAA"), name |-> <<"a">>,
         type |-> "College", attendance |-> "Absent"]
OldB == [id |-> 0, uid |-> MakeUID(0, "AAAA"), name |-> <<"b">>,
         type |-> "School", attendance |-> "Present"]
OldC == [name |-> <<"c">>, attendance |-> "Late"]
OldD == [id |-> 1, uid |-> MakeUID(1, "ZZZZ"), name |-> <<"d">>,
         type |-> "School", attendance |-> "Present"]

StoredInputs ==
    << NoItem, EmptyText, Malformed,
       <<JSONstringify(<<>>)>>,
       <<JSONstringify(<<OldA>>)>>,
       <<JSONstringify(<<OldC>>)>>,
       <<JSONstringify(<<OldA, OldB>>)>>,
       <<JSONstringify(<<OldC, OldC>>)>>,
       <<JSONstringify(<<OldA, OldD>>)>> >>

(* a row object whose record may no longer be in the list *)
StaleRow == OldA

Rows == {filteredStudents[i] : i \in 1..Len(filteredStudents)} \cup {StaleRow}

EmptyForm == [name |-> <<>>, type |-> "School"]

(* what the user may submit as the add form: nothing, blanks, a name *)
AddForms ==
    { EmptyForm,
      [name |-> <<" ">>, type |-> "College"],
      [name |-> <<" ", "n", " ">>, type |-> "School"],
      [name |-> <<" ", "n", " ">>, type |-> "College"] }

-----------------------------------------------------------------------------
(* The state after construction (field initialisers of the class) *)

Init ==
    /\ variant \in Variants
    /\ scope \in Scopes
    /\ \E i \in 1..Len(StoredInputs) : storage = StoredInputs[i]
    /\ phase = "new"
    /\ now = 2
    /\ students = <<>>
    /\ filteredStudents = <<>>
    /\ currentFilter = "All"
    /\ totalCount = 0
    /\ presentCount = 0
    /\ absentCount = 0
    /\ addForm = EmptyForm
    /\ showEditModal = FALSE
    /\ modalClosing = FALSE
    /\ editModel = Null
    /\ viewReady = FALSE
    /\ chart = <<>>
    /\ timers = 0
    /\ copyOpen = FALSE
    /\ toggledTo = <<>>

(* A stored roster of p present and a absent students, as save wrote it *)
Roster(p, a) ==
    [i \in 1..(p + a) |->
        [id |-> i, uid |-> MakeUID(i, "AAAA"), name |-> <<"a">>,
         type |-> "College",
         attendance |-> IF i <= p THEN "Present" ELSE "Absent"]]

(* The component over such a roster, before its chart is first drawn: the  *)
(* rich variant after ngOnInit (load regenerates nothing in a roster whose *)
(* records are complete), the simple variant after construction.           *)
InitChart ==
    /\ variant \in Variants
    /\ scope = "roster"
    /\ \E p \in 0..MaxPresent, a \in 0..MaxAbsent :
          storage = <<JSONstringify(Roster(p, a))>>
    /\ now = 2
    /\ phase = IF variant = "rich" THEN "init" ELSE "new"
    /\ students = IF variant = "rich"
                  THEN LoadRich(storage, now,
                                [i \in 1..Len(Parsed(storage)) |-> "AAAA"],
                                [i \in 1..Len(Parsed(storage)) |-> "ZZZZ"])
                  ELSE <<>>
    /\ filteredStudents = students
    /\ currentFilter = "All"
    /\ totalCount = Len(filteredStudents)
    /\ presentCount = CountAtt(filteredStudents, "Present")
    /\ absentCount = CountAtt(filteredStudents, "Absent")
    /\ addForm = EmptyForm
    /\ showEditModal = FALSE
    /\ modalClosing = FALSE
    /\ editModel = Null
    /\ viewReady = FALSE
    /\ chart = <<>>
    /\ timers = 0
    /\ copyOpen = FALSE
    /\ toggledTo = <<>>

modal == <<showEditModal, modalClosing, editModel, timers>>
derived == <<filteredStudents, currentFilter, totalCount, presentCount, absentCount, chart>>
history == <<copyOpen, toggledTo>>

-----------------------------------------------------------------------------
(* Lifecycle *)

(* JSON.parse throws: ngOnInit is abandoned *)
NgOnInitThrows ==
    /\ phase = "new"
    /\ ~CanParse(storage)
    /\ phase' = "crashed"
    /\ UNCHANGED <<variant, scope, now, storage, students, addForm, viewReady>>
    /\ UNCHANGED modal
    /\ UNCHANGED history
    /\ UNCHANGED derived

NgOnInitRich ==
    /\ phase = "new"
    /\ variant = "rich"
    /\ CanParse(storage)
    /\ \E ra, rb \in [1..Len(Parsed(storage)) -> RandomParts] :
          students' = LoadRich(storage, now, ra, rb)
    /\ Save(students')
    /\ ApplyFilter(students', "All", viewReady, FALSE)
    /\ phase' = "init"
    /\ UNCHANGED <<variant, scope, now, addForm, viewReady>>
    /\ UNCHANGED modal
    /\ UNCHANGED history

NgAfterViewInit ==
    /\ phase = "init"
    /\ viewReady' = TRUE
    /\ chart' = RenderChart(variant, viewReady', TRUE,
                            presentCount, absentCount, chart)
    /\ phase' = "ready"
    /\ UNCHANGED <<variant, scope, now, storage, students, addForm>>
    /\ UNCHANGED <<filteredStudents, currentFilter, totalCount, presentCount, absentCount>>
    /\ UNCHANGED modal
    /\ UNCHANGED history

(* applyFilter runs with viewReady still false and draws nothing; the     *)
(* renderChart that ends ngOnInit draws if the template's anchor element   *)
(* is already in the document, which the component does not control        *)
NgOnInitSimple ==
    /\ phase = "new"
    /\ variant = "simple"
    /\ CanParse(storage)
    /\ students' = LoadSimple(storage)
    /\ viewReady' = TRUE
    /\ \E element \in BOOLEAN :
          ApplyFilter(students', "All", viewReady', element)
    /\ phase' = "ready"
    /\ UNCHANGED <<variant, scope, now, storage, addForm>>
    /\ UNCHANGED modal
    /\ UNCHANGED history

-----------------------------------------------------------------------------
(* Filtering *)

DoApplyFilter(f) ==
    /\ phase = "ready"
    /\ ApplyFilter(students, f, viewReady, TRUE)
    /\ UNCHANGED <<variant, scope, phase, now, storage, students, addForm, viewReady>>
    /\ UNCHANGED modal
    /\ UNCHANGED history

ClearFilter == DoApplyFilter("All")

-----------------------------------------------------------------------------
(* CRUD *)

SetProp(o, k, v) == [x \in DOMAIN o \cup {k} |-> IF x = k THEN v ELSE o[x]]

(* { ...o } *)
Clone(o) == [k \in DOMAIN o |-> o[k]]

NewStudent(v, t, r, name, type) ==
    IF v = "rich"
    THEN [id |-> t, uid |-> MakeUID(t, r), name |-> name, type |-> type,
          attendance |-> "Present"]
    ELSE [id |-> t, name |-> name, type |-> type, attendance |-> "Absent"]

(* The user fills the add form (its two-way binding sets addForm to form)  *)
(* and submits it.  t is the reading of Date.now(): the clock does not run *)
(* backwards, so t is at least the previous reading.                       *)
AddStudent(form, t) ==
    /\ phase = "ready"
    /\ scope = "roster"
    /\ LET name == Trim(form.name) IN
       IF name = <<>>
       THEN /\ addForm' = form
            /\ UNCHANGED <<now, storage, students>>
            /\ UNCHANGED derived
       ELSE /\ Len(students) < MaxStudents
            /\ now' = t
            /\ \E r \in RandomParts :
                  students' = Append(students, NewStudent(variant, t, r, name, form.type))
            /\ Save(students')
            /\ addForm' = EmptyForm
            /\ ApplyFilter(students', currentFilter, viewReady, TRUE)
    /\ UNCHANGED <<variant, scope, phase, viewReady>>
    /\ UNCHANGED modal
    /\ UNCHANGED history

(* id is a number, or undefined (<<>>) when the row has no id *)
DeleteStudent(id, confirm) ==
    /\ phase = "ready"
    /\ IF ~confirm
       THEN UNCHANGED <<storage, students>> /\ UNCHANGED derived
       ELSE /\ students' = ArrayFilter(students, WhereNot(students, "id", id))
            /\ Save(students')
            /\ ApplyFilter(students', currentFilter, viewReady, TRUE)
    /\ UNCHANGED <<variant, scope, phase, now, addForm, viewReady>>
    /\ UNCHANGED modal
    /\ UNCHANGED history

OpenEdit(student) ==
    /\ phase = "ready"
    /\ scope = "edit"
    /\ editModel' = <<Clone(student)>>
    /\ showEditModal' = TRUE
    /\ copyOpen' = TRUE
    /\ toggledTo' = <<>>
    /\ UNCHANGED <<variant, scope, phase, now, storage, students, addForm, viewReady,
                   modalClosing, timers>>
    /\ UNCHANGED derived

(* the bindings writing to the very record of the list, as they would if  *)
(* openEdit handed out the row instead of a clone                          *)
EditModelInputAliased(k, v) ==
    /\ phase = "ready"
    /\ editModel # Null
    /\ Prop(Obj(editModel), k) # <<v>>
    /\ editModel' = <<SetProp(Obj(editModel), k, v)>>
    /\ LET idx == FindIndex(Where(students, "id", Prop(Obj(editModel), "id")))
       IN  students' = IF idx > 0 THEN [students EXCEPT ![idx] = Obj(editModel')]
                       ELSE students
    /\ UNCHANGED <<variant, scope, phase, now, storage, addForm, viewReady,
                   showEditModal, modalClosing, timers>>
    /\ UNCHANGED derived
    /\ UNCHANGED history

(* the two-way bindings of the edit modal write to the working copy; of   *)
(* its fields the runs change the type                                     *)
EditModelInput(k, v) ==
    /\ phase = "ready"
    /\ editModel # Null
    /\ Prop(Obj(editModel), k) # <<v>>
    /\ editModel' = <<SetProp(Obj(editModel), k, v)>>
    /\ UNCHANGED <<variant, scope, phase, now, storage, students, addForm, viewReady,
                   showEditModal, modalClosing, timers>>
    /\ UNCHANGED derived
    /\ UNCHANGED history

(* a cancelEdit that closes at once and sets no timer *)
CancelEditBodyAtOnce ==
    /\ showEditModal' = FALSE
    /\ modalClosing' = FALSE
    /\ editModel' = Null
    /\ UNCHANGED timers
    /\ copyOpen' = FALSE
    /\ toggledTo' = <<>>

(* cancelEdit: the flag is raised now, the rest is left to the timer.  Of  *)
(* the pending callbacks at most MaxTimers are told apart: a further one   *)
(* runs right after the last pending one, with which it is merged.         *)
CancelEditBody ==
    /\ modalClosing' = TRUE
    /\ timers' = IF timers < MaxTimers THEN timers + 1 ELSE timers
    /\ UNCHANGED <<showEditModal, editModel>>
    /\ copyOpen' = FALSE
    /\ toggledTo' = <<>>

CancelEdit ==
    /\ phase = "ready"
    /\ scope = "edit"
    /\ CancelEditBody
    /\ UNCHANGED <<variant, scope, phase, now, storage, students, addForm, viewReady>>
    /\ UNCHANGED derived

(* the callback cancelEdit handed to setTimeout *)
CloseTimer ==
    /\ timers > 0
    /\ showEditModal' = FALSE
    /\ modalClosing' = FALSE
    /\ editModel' = Null
    /\ timers' = timers - 1
    /\ copyOpen' = FALSE
    /\ toggledTo' = <<>>
    /\ UNCHANGED <<variant, scope, phase, now, storage, students, addForm, viewReady>>
    /\ UNCHANGED derived

SaveEdit ==
    /\ phase = "ready"
    /\ IF editModel = Null
       THEN /\ UNCHANGED <<storage, students>>
            /\ UNCHANGED derived
            /\ UNCHANGED modal
            /\ UNCHANGED history
       ELSE LET idx == FindIndex(Where(students, "id", Prop(Obj(editModel), "id")))
            IN  /\ IF idx > 0
                   THEN /\ students' = [students EXCEPT ![idx] = Clone(Obj(editModel))]
                        /\ Save(students')
                        /\ ApplyFilter(students', currentFilter, viewReady, TRUE)
                   ELSE UNCHANGED <<storage, students>> /\ UNCHANGED derived
                /\ CancelEditBody
    /\ UNCHANGED <<variant, scope, phase, now, addForm, viewReady>>

-----------------------------------------------------------------------------
(* Attendance (inline) *)

(* history: a toggle that met a record and was given the id of the record *)
(* under edit                                                              *)
NoteToggle(student, att) ==
    /\ UNCHANGED copyOpen
    /\ toggledTo' = IF /\ copyOpen
                        /\ Prop(student, "id") = Prop(Obj(editModel), "id")
                        /\ FindIndex(Where(students, "id", Prop(student, "id"))) > 0
                     THEN <<att>> ELSE toggledTo

(* onAttendanceChange that looks for a record with another id *)
OnAttendanceChangeWrongHit(student, att) ==
    /\ phase = "ready"
    /\ LET idx == FindIndex(WhereNot(students, "id", Prop(student, "id")))
       IN  IF idx > 0
           THEN /\ students' = [students EXCEPT ![idx] = SetProp(@, "attendance", att)]
                /\ Save(students')
                /\ ApplyFilter(students', currentFilter, viewReady, TRUE)
           ELSE UNCHANGED <<storage, students>> /\ UNCHANGED derived
    /\ UNCHANGED <<variant, scope, phase, now, addForm, viewReady>>
    /\ UNCHANGED modal
    /\ NoteToggle(student, att)

OnAttendanceChange(student, att) ==
    /\ phase = "ready"
    /\ LET idx == FindIndex(Where(students, "id", Prop(student, "id")))
       IN  IF idx > 0
           THEN /\ students' = [students EXCEPT ![idx] = SetProp(@, "attendance", att)]
                /\ Save(students')
                /\ ApplyFilter(students', currentFilter, viewReady, TRUE)
           ELSE UNCHANGED <<storage, students>> /\ UNCHANGED derived
    /\ UNCHANGED <<variant, scope, phase, now, addForm, viewReady>>
    /\ UNCHANGED modal
    /\ NoteToggle(student, att)

-----------------------------------------------------------------------------

Next ==
    \/ NgOnInitThrows
    \/ NgOnInitRich
    \/ NgAfterViewInit
    \/ NgOnInitSimple
    \/ \E f \in Filter : DoApplyFilter(f)
    \/ ClearFilter
    \/ \E form \in AddForms, t \in now..MaxClock : AddStudent(form, t)
    \/ \E s \in Rows, confirm \in BOOLEAN : DeleteStudent(Prop(s, "id"), confirm)
    \/ \E s \in Rows : OpenEdit(s)
    \/ \E v \in Type : EditModelInput("type", v)
    \/ SaveEdit
    \/ CancelEdit
    \/ CloseTimer
    \/ \E s \in Rows, att \in Att : OnAttendanceChange(s, att)

Spec == Init /\ [][Next]_vars

(* The first drawing of the chart over a stored roster *)
NextChart == NgAfterViewInit \/ NgOnInitSimple

SpecChart == InitChart /\ [][NextChart]_vars

-----------------------------------------------------------------------------
(* Vocabulary of the properties *)

(* ngOnInit has returned normally *)
Initialised == phase \in {"init", "ready"}

Matches(s, f) ==
    CASE f = "All" -> TRUE
      [] f \in Att -> Prop(s, "attendance") = <<f>>
      [] f \in Type -> Prop(s, "type") = <<f>>

ViewOf(sts, f) == SelectSeq(sts, LAMBDA s : Matches(s, f))

HowMany(sts, a) == Cardinality({i \in 1..Len(sts) : Prop(sts[i], "attendance") = <<a>>})

-----------------------------------------------------------------------------
(* C1: once a call has returned, filteredStudents is the subsequence of    *)
(* students that currentFilter selects, in the order of students; and only *)
(* applyFilter and clearFilter change currentFilter.                       *)

C1_ViewIsDerived == Initialised => filteredStudents = ViewOf(students, currentFilter)

C1_OnlyFilterChangesSelector ==
    currentFilter' # currentFilter => \E f \in Filter : DoApplyFilter(f)

C1_FilteredViewFollowsList ==
    []C1_ViewIsDerived /\ [][C1_OnlyFilterChangesSelector]_vars

(* a proper, non-empty view that skips the first record *)
C1_Witness ==
    /\ phase = "ready"
    /\ currentFilter # "All"
    /\ Len(students) = 2
    /\ Len(filteredStudents) = 1
    /\ filteredStudents[1] = students[2]
    /\ students[1] # students[2]

-----------------------------------------------------------------------------
(* C2: once load or a mutating operation has returned, the slot holds the  *)
(* serialization of students; load itself saves, also when the slot was    *)
(* absent.                                                                 *)

C2_SlotHoldsList == Initialised => storage = <<JSONstringify(students)>>

-----------------------------------------------------------------------------
(* C3: after initialisation presentCount + absentCount = totalCount.       *)

C3_CountsAddUp == Initialised => presentCount + absentCount = totalCount

-----------------------------------------------------------------------------
(* C4: the three counts are the size, the number of Present and the number *)
(* of Absent records of the view currentFilter selects, not of students.   *)

C4_CountsAreOfView ==
    Initialised =>
        LET view == ViewOf(students, currentFilter)
        IN  /\ totalCount = Len(view)
            /\ presentCount = HowMany(view, "Present")
            /\ absentCount = HowMany(view, "Absent")

(* under a filter that hides a record, the counts differ from the list's *)
C4_Witness ==
    /\ phase = "ready"
    /\ currentFilter = "School"
    /\ totalCount = 1
    /\ Len(students) = 2
    /\ presentCount + absentCount = 1
    /\ HowMany(students, "Present") + HowMany(students, "Absent") = 2

-----------------------------------------------------------------------------
(* C5: every record of students has type School or College and attendance  *)
(* Present or Absent, also right after a load of entries without them.     *)

C5_EnumsOnly ==
    Initialised =>
        \A i \in 1..Len(students) :
            /\ Prop(students[i], "type") \in {<<t>> : t \in Type}
            /\ Prop(students[i], "attendance") \in {<<a>> : a \in Att}

-----------------------------------------------------------------------------
(* C6: the uid values of students are pairwise distinct once load has      *)
(* completed and after every addStudent, whatever makeUID returns.         *)

C6_UidsDistinct ==
    Initialised =>
        \A i, j \in 1..Len(students) :
            (i # j /\ Prop(students[i], "uid") # <<>>)
                => Prop(students[i], "uid") # Prop(students[j], "uid")

-----------------------------------------------------------------------------
(* C7: no two records of students share the same id.                       *)

C7_IdsDistinct ==
    Initialised =>
        \A i, j \in 1..Len(students) :
            i # j => Prop(students[i], "id") # Prop(students[j], "id")

-----------------------------------------------------------------------------
(* C8: a change of the working copy editModel leaves students, the slot,   *)
(* filteredStudents and the counts as they are; a record of students takes *)
(* new name or type values only from the working copy, when saveEdit       *)
(* commits it.                                                             *)

core == <<students, storage, filteredStudents, totalCount, presentCount, absentCount>>

C8_CopyChangeIsLocal ==
    (editModel' # editModel /\ editModel' # Null) => UNCHANGED core

C8_RecordChangesByCommit ==
    \A i \in 1..Len(students) :
        ( /\ Len(students') = Len(students)
          /\ \/ Prop(students'[i], "name") # Prop(students[i], "name")
             \/ Prop(students'[i], "type") # Prop(students[i], "type") )
        => /\ editModel # Null
           /\ students'[i] = Obj(editModel)
           /\ SaveEdit

C8_EditsStayInWorkingCopy ==
    [][C8_CopyChangeIsLocal /\ C8_RecordChangesByCommit]_vars

(* the working copy has been edited and the record it was taken from has   *)
(* not                                                                     *)
C8_Witness ==
    /\ editModel # Null
    /\ \E i \in 1..Len(students) :
          /\ Prop(students[i], "type") # Prop(Obj(editModel), "type")
          /\ \E t \in Type : students[i] = SetProp(Obj(editModel), "type", t)

-----------------------------------------------------------------------------
(* C9, as claimed: when cancelEdit returns, editModel is null and          *)
(* showEditModal is false.                                                 *)

C9_CancelClosesAtOnce ==
    [][CancelEdit => (editModel' = Null /\ showEditModal' = FALSE)]_vars

(* C9, amended: cancelEdit raises modalClosing, leaves editModel and        *)
(* showEditModal as they are and leaves a timer callback pending; that      *)
(* callback sets editModel to null and clears showEditModal and            *)
(* modalClosing.                                                           *)

C9_CancelDefersClose ==
    [][ /\ CancelEdit => ( /\ modalClosing'
                           /\ timers' > 0
                           /\ UNCHANGED <<editModel, showEditModal>> )
        /\ CloseTimer => ( /\ editModel' = Null
                           /\ showEditModal' = FALSE
                           /\ modalClosing' = FALSE ) ]_vars

(* cancelEdit has returned and the modal still shows the working copy *)
C9_Witness ==
    /\ modalClosing
    /\ timers > 0
    /\ showEditModal
    /\ editModel # Null

-----------------------------------------------------------------------------
(* C10: onAttendanceChange for a row, and saveEdit of a working copy,      *)
(* whose id no record of students has leave students, the slot,            *)
(* filteredStudents and the counts as they are.                            *)

NoRecordHas(id) == \A i \in 1..Len(students) : Prop(students[i], "id") # id

C10_StaleToggle ==
    \A s \in Rows, att \in Att :
        (NoRecordHas(Prop(s, "id")) /\ OnAttendanceChange(s, att)) => UNCHANGED core

C10_StaleCommit ==
    (editModel # Null /\ NoRecordHas(Prop(Obj(editModel), "id")) /\ SaveEdit)
        => UNCHANGED core

C10_StaleIdIsNoOp == [][C10_StaleToggle /\ C10_StaleCommit]_vars

(* a working copy whose record is gone from a list that still has records, *)
(* after saveEdit or cancelEdit has returned                               *)
C10_Witness ==
    /\ editModel # Null
    /\ NoRecordHas(Prop(Obj(editModel), "id"))
    /\ students # <<>>
    /\ modalClosing

-----------------------------------------------------------------------------
(* C11: addStudent with a name that is empty or all blanks creates no      *)
(* record: students, the slot, filteredStudents, the counts and            *)
(* currentFilter stay as they are.                                         *)

IsBlank(name) == \A i \in 1..Len(name) : name[i] = " "

C11_BlankNameStep ==
    \A form \in AddForms, t \in now..MaxClock :
        (IsBlank(form.name) /\ AddStudent(form, t))
            => (UNCHANGED core /\ UNCHANGED currentFilter)

C11_BlankNameIsRejected == [][C11_BlankNameStep]_vars

(* a form of blanks was submitted to a list that has a record and room for *)
(* another, and is still in the form                                       *)
C11_Witness ==
    /\ phase = "ready"
    /\ addForm.name # <<>>
    /\ IsBlank(addForm.name)
    /\ Len(students) = 1

-----------------------------------------------------------------------------
(* C12: the series handed to the chart holds the labels whose count is     *)
(* positive, Present before Absent, and nothing else.                      *)

SeriesOfPositive(p, a) ==
    (IF p > 0 THEN <<[label |-> "Present", value |-> p]>> ELSE <<>>)
    \o (IF a > 0 THEN <<[label |-> "Absent", value |-> a]>> ELSE <<>>)

C12_SeriesOmitsZero ==
    chart # <<>> => Obj(chart).series = SeriesOfPositive(presentCount, absentCount)

-----------------------------------------------------------------------------
(* C13: the centre label of a drawn chart is "No Data" exactly when        *)
(* presentCount + absentCount is 0, and otherwise "<p>% Present" with p    *)
(* the quotient 100 * presentCount / (presentCount + absentCount) rounded  *)
(* to the nearest integer, a half going up.                                *)

HalfUp(n, d) == (2 * n + d) \div (2 * d)

C13_CentreLabel ==
    chart # <<>> =>
        IF presentCount + absentCount = 0
        THEN Obj(chart).text = "No Data" /\ Obj(chart).pct = <<>>
        ELSE /\ Obj(chart).text = "% Present"
             /\ Obj(chart).pct =
                    <<HalfUp(100 * presentCount, presentCount + absentCount)>>

-----------------------------------------------------------------------------
(* C14: the Present and Absent views partition the list, every record is   *)
(* in exactly one of the two; so do the School and College views.          *)

Members(sts) == {sts[i] : i \in 1..Len(sts)}

Partition(sts, f, g) ==
    /\ Len(FilterBy(sts, f)) + Len(FilterBy(sts, g)) = Len(sts)
    /\ \A s \in Members(sts) :
          (s \in Members(FilterBy(sts, f))) # (s \in Members(FilterBy(sts, g)))

C14_ViewsPartition ==
    Initialised =>
        /\ Partition(students, "Present", "Absent")
        /\ Partition(students, "School", "College")

-----------------------------------------------------------------------------
(* C15: a list of well-formed records with pairwise distinct uid survives  *)
(* save followed by load: the loaded list equals the saved one, element    *)
(* for element and in order, whatever the clock and the random parts are.  *)

WellFormed(s) ==
    /\ DOMAIN s = {Student[i] : i \in 1..Len(Student)}
    /\ s.type \in Type
    /\ s.attendance \in Att

RoundTrips(sts) ==
    /\ \A i \in 1..Len(sts) : WellFormed(sts[i])
    /\ \A i, j \in 1..Len(sts) : i # j => sts[i].uid # sts[j].uid

Saved(sts) == <<JSONstringify(sts)>>

(* what load makes of the slot, for every clock and every random draw *)
Loads(raw) ==
    IF variant = "rich"
    THEN {LoadRich(raw, t, ra, rb) :
            t \in now..MaxClock,
            ra \in [1..Len(Parsed(raw)) -> RandomParts],
            rb \in [1..Len(Parsed(raw)) -> RandomParts]}
    ELSE {LoadSimple(raw)}

C15_SavedListLoadsBack ==
    (Initialised /\ RoundTrips(students)) => Loads(Saved(students)) = {students}

(* ngOnInit over a slot that holds such a list: the list comes back and    *)
(* the slot keeps its text                                                 *)
C15_LoadStep ==
    (/\ NgOnInitRich \/ NgOnInitSimple
     /\ Truthy(storage)
     /\ RoundTrips(Parsed(storage)))
        => (students' = Parsed(storage) /\ storage' = storage)

C15_RoundTrip == []C15_SavedListLoadsBack /\ [][C15_LoadStep]_vars

(* the stored pair, loaded, with a uid each *)
C15_Witness ==
    /\ Initialised
    /\ Len(students) = 2
    /\ RoundTrips(students)
    /\ storage = Saved(students)
    /\ students[1].attendance # students[2].attendance

-----------------------------------------------------------------------------
(* C16: over a slot whose text is not an array of records ngOnInit does    *)
(* not fail: load treats the slot as absent, the list is empty and         *)
(* initialisation completes with totalCount = 0.                           *)

C16_MalformedStep ==
    (phase = "new" /\ ~CanParse(storage) /\ phase' # phase)
        => (/\ phase' \in {"init", "ready"}
            /\ students' = <<>>
            /\ totalCount' = 0)

C16_MalformedIsAbsent == [][C16_MalformedStep]_vars

-----------------------------------------------------------------------------
(* C17: a confirmed deleteStudent(id) for an id some record has removes    *)
(* one matching record and nothing else, the other records stay as they    *)
(* are and in their order; a declined one leaves students, the slot and    *)
(* the derived view as they are.                                           *)

Without(sts, i) == SubSeq(sts, 1, i - 1) \o SubSeq(sts, i + 1, Len(sts))

C17_DeleteStep ==
    \A s \in Rows, confirm \in BOOLEAN :
        DeleteStudent(Prop(s, "id"), confirm) =>
            IF confirm
            THEN ~NoRecordHas(Prop(s, "id")) =>
                    \E i \in 1..Len(students) :
                        /\ Prop(students[i], "id") = Prop(s, "id")
                        /\ students' = Without(students, i)
            ELSE UNCHANGED <<students, storage>> /\ UNCHANGED derived

C17_DeleteRemovesOne == [][C17_DeleteStep]_vars

-----------------------------------------------------------------------------
(* C18: a working copy is discarded only by a cancelEdit or saveEdit       *)
(* issued after its openEdit: while none has followed, no step, and so no  *)
(* timer callback of an earlier close, nulls editModel or clears           *)
(* showEditModal.                                                          *)

C18_OpenCopyStays == copyOpen => (editModel' # Null /\ showEditModal')

C18_TimerSparesNewCopy == [][C18_OpenCopyStays]_vars

-----------------------------------------------------------------------------
(* C19: a working copy that cancelEdit or saveEdit has closed is not       *)
(* committed: a saveEdit with no openEdit in between leaves the list and   *)
(* the slot as they are, also while the close timer is still pending.      *)

C19_ClosedCopyStep ==
    (editModel # Null /\ ~copyOpen /\ SaveEdit) => UNCHANGED <<students, storage>>

C19_CancelledIsNotCommitted == [][C19_ClosedCopyStep]_vars

-----------------------------------------------------------------------------
(* C20: when onAttendanceChange set the record under edit to a after       *)
(* openEdit took the copy, saveEdit leaves the record's attendance at a    *)
(* (the modal never edits the copy's attendance in these runs).            *)

C20_CommitStep ==
    (copyOpen /\ toggledTo # <<>> /\ SaveEdit) =>
        LET idx == FindIndex(Where(students, "id", Prop(Obj(editModel), "id")))
        IN  idx > 0 => Prop(students'[idx], "attendance") = toggledTo

C20_ToggleSurvivesCommit == [][C20_CommitStep]_vars

====
